---------------------------- MODULE Spec2Model ----------------------------
(***************************************************************************)
(* The streak round engine of hypertyper.py (and its earlier copy,         *)
(* typing_game.py): combo tiers, the double time check, scoring, the end   *)
(* of a round and the persisted high-score map.                            *)
(*                                                                         *)
(* Text is modelled as a sequence of one-character strings, so that        *)
(* str.strip, str.lower, str.upper, str.isalpha and slicing are computed   *)
(* and not assumed.  Time is in whole seconds.  A multiplier is kept in    *)
(* halves (1.5 is 3), so int(word_len * multiplier) is                     *)
(* (word_len * halves) \div 2.                                             *)
(***************************************************************************)
EXTENDS Integers, Sequences, FiniteSets, TLC

VARIABLES
    pc,                 \* where the session is: "menu", "check", "input",
                        \* "over", "name", "prompt", "exited", "crashed"
    mode_name,          \* streak_mode's mode_name argument
    current_words,      \* the pool load_words returned for the session
    time_limit_setting, \* SETTINGS["time_limit"]
    score, total_chars_typed, correct_words, combo,
    start_time, time_limit,
    now,                \* the last value time.time() returned
    elapsed,            \* the local `elapsed` of the round loop
    tier_name, multiplier,
    target_word,
    typed,              \* the line the last prompt returned, before .strip()
    user_input,
    points,
    end_cause,          \* how the round loop was left: "TIMED_OUT", "FAILED"
                        \* (a break) or "INTERRUPTED" (the return)
    final_elapsed, wpm,
    is_new_record,
    hsFile,             \* the content of HIGHSCORE_FILE
    played,             \* the play_sound calls of the last step, in order
    tierq               \* the inputs and results of a tier lookup (SpecTier)

vars == << pc, mode_name, current_words, time_limit_setting, score,
           total_chars_typed, correct_words, combo, start_time, time_limit,
           now, elapsed, tier_name, multiplier, target_word, typed,
           user_input, points, end_cause, final_elapsed, wpm, is_new_record,
           hsFile, played, tierq >>

(***************************************************************************)
(* Bounds of the model.                                                    *)
(***************************************************************************)
\* correct answers after which a round presents no further word: in Spec,
\* the whole program, and in RoundSpec, one round
MaxCorrect == 2
DeepCorrect == 13
\* random.choice draws among the first MaxPool words of the pool
MaxPool == 2
\* largest combo a tier lookup is asked for in SpecTier
MaxCombo == 14

(***************************************************************************)
(* Text.                                                                   *)
(***************************************************************************)
Min(a, b) == IF a <= b THEN a ELSE b

LowerAlpha == << "a", "b", "c", "d", "e", "f", "g", "h", "i", "j", "k", "l",
                "m", "n", "o", "p", "q", "r", "s", "t", "u", "v", "w", "x",
                "y", "z" >>
UpperAlpha == << "A", "B", "C", "D", "E", "F", "G", "H", "I", "J", "K", "L",
                "M", "N", "O", "P", "Q", "R", "S", "T", "U", "V", "W", "X",
                "Y", "Z" >>
Letters == { LowerAlpha[k] : k \in 1..Len(LowerAlpha) }
               \cup { UpperAlpha[k] : k \in 1..Len(UpperAlpha) }
Whitespace == {" "}

\* str.lower on one character
lower_char(c) ==
    IF \E k \in 1..Len(UpperAlpha) : UpperAlpha[k] = c
    THEN LowerAlpha[CHOOSE k \in 1..Len(UpperAlpha) : UpperAlpha[k] = c]
    ELSE c

\* str.upper on one character
upper_char(c) ==
    IF \E k \in 1..Len(LowerAlpha) : LowerAlpha[k] = c
    THEN UpperAlpha[CHOOSE k \in 1..Len(LowerAlpha) : LowerAlpha[k] = c]
    ELSE c

lower(s) == [k \in 1..Len(s) |-> lower_char(s[k])]
upper(s) == [k \in 1..Len(s) |-> upper_char(s[k])]

\* str.isalpha: non-empty and every character a letter
isalpha(s) ==
    /\ Len(s) > 0
    /\ \A k \in 1..Len(s) : s[k] \in Letters

RECURSIVE lstrip(_)
lstrip(s) ==
    IF s # << >> /\ Head(s) \in Whitespace THEN lstrip(Tail(s)) ELSE s

RECURSIVE rstrip(_)
rstrip(s) ==
    IF s # << >> /\ s[Len(s)] \in Whitespace
    THEN rstrip(SubSeq(s, 1, Len(s) - 1))
    ELSE s

\* str.strip
strip(s) == rstrip(lstrip(s))

(***************************************************************************)
(* get_combo_tier: (tier_name, multiplier in halves).                      *)
(***************************************************************************)
\* get_combo_tier with the top threshold exclusive
get_combo_tier_exclusive(c) ==
    IF c > 12 THEN [name |-> "GOD MODE", mult2 |-> 16]
    ELSE IF c >= 10 THEN [name |-> "UNSTOPPABLE", mult2 |-> 10]
    ELSE IF c >= 7 THEN [name |-> "SURGE", mult2 |-> 6]
    ELSE IF c >= 5 THEN [name |-> "OVERCLOCKED", mult2 |-> 4]
    ELSE IF c >= 3 THEN [name |-> "FLOW STATE", mult2 |-> 3]
    ELSE [name |-> "", mult2 |-> 2]

\* get_combo_tier with the multipliers of two neighbouring tiers exchanged
get_combo_tier_swapped(c) ==
    IF c >= 12 THEN [name |-> "GOD MODE", mult2 |-> 16]
    ELSE IF c >= 10 THEN [name |-> "UNSTOPPABLE", mult2 |-> 10]
    ELSE IF c >= 7 THEN [name |-> "SURGE", mult2 |-> 4]
    ELSE IF c >= 5 THEN [name |-> "OVERCLOCKED", mult2 |-> 6]
    ELSE IF c >= 3 THEN [name |-> "FLOW STATE", mult2 |-> 3]
    ELSE [name |-> "", mult2 |-> 2]

\* the tiers with a multiplier of 0.5 below the first threshold
get_combo_tier_half(c) ==
    IF c >= 12 THEN [name |-> "GOD MODE", mult2 |-> 16]
    ELSE IF c >= 10 THEN [name |-> "UNSTOPPABLE", mult2 |-> 10]
    ELSE IF c >= 7 THEN [name |-> "SURGE", mult2 |-> 6]
    ELSE IF c >= 5 THEN [name |-> "OVERCLOCKED", mult2 |-> 4]
    ELSE IF c >= 3 THEN [name |-> "FLOW STATE", mult2 |-> 3]
    ELSE [name |-> "", mult2 |-> 1]

get_combo_tier(c) ==
    IF c >= 12 THEN [name |-> "GOD MODE", mult2 |-> 16]
    ELSE IF c >= 10 THEN [name |-> "UNSTOPPABLE", mult2 |-> 10]
    ELSE IF c >= 7 THEN [name |-> "SURGE", mult2 |-> 6]
    ELSE IF c >= 5 THEN [name |-> "OVERCLOCKED", mult2 |-> 4]
    ELSE IF c >= 3 THEN [name |-> "FLOW STATE", mult2 |-> 3]
    ELSE [name |-> "", mult2 |-> 2]

\* typing_game.py's copy of get_combo_tier
tg_get_combo_tier(c) ==
    IF c >= 12 THEN [name |-> "GOD MODE", mult2 |-> 16]
    ELSE IF c >= 10 THEN [name |-> "UNSTOPPABLE", mult2 |-> 10]
    ELSE IF c >= 7 THEN [name |-> "SURGE", mult2 |-> 6]
    ELSE IF c >= 5 THEN [name |-> "OVERCLOCKED", mult2 |-> 4]
    ELSE IF c >= 3 THEN [name |-> "FLOW STATE", mult2 |-> 3]
    ELSE [name |-> "", mult2 |-> 2]

\* the thresholds whose exact hit plays "levelup"
TierUpCombos == {3, 5, 7, 10, 12}

(***************************************************************************)
(* load_words.  A word file is what the file system holds for it: whether  *)
(* it exists, whether opening it raises IOError, and its lines.            *)
(***************************************************************************)
BACKUP_WORDS ==
    << <<"a","p","p","l","e">>, <<"b","a","n","a","n","a">>,
       <<"c","h","e","r","r","y">>, <<"d","a","t","e">>,
       <<"e","l","d","e","r","b","e","r","r","y">>, <<"f","i","g">>,
       <<"g","r","a","p","e">>, <<"l","e","m","o","n">>,
       <<"l","i","m","e">>, <<"m","a","n","g","o">> >>

RECURSIVE filter_lines(_, _)
filter_lines(lines, exact_match) ==
    IF lines = << >> THEN << >>
    ELSE LET w == IF exact_match THEN strip(Head(lines))
                  ELSE lower(strip(Head(lines)))
             keep == IF exact_match THEN w # << >>
                     ELSE Len(w) >= 3 /\ isalpha(w)
         IN (IF keep THEN << w >> ELSE << >>)
                \o filter_lines(Tail(lines), exact_match)

\* load_words returning what the filter kept, without the backup list
load_words_nofallback(file, exact_match) ==
    IF file.exists /\ ~file.ioerror
    THEN filter_lines(file.lines, exact_match)
    ELSE << >>

load_words(file, exact_match) ==
    LET words == IF file.exists /\ ~file.ioerror
                 THEN filter_lines(file.lines, exact_match)
                 ELSE << >>
    IN IF words = << >> THEN BACKUP_WORDS ELSE words

\* the word files the model reads: absent, unreadable, empty, holding only
\* lines the normalized filter drops, holding two usable lines, holding
\* the one line "test", and holding two lines of three letters
WordFiles ==
    { [exists |-> FALSE, ioerror |-> FALSE, lines |-> << >>],
      [exists |-> TRUE, ioerror |-> TRUE, lines |-> << <<"f","i","g">> >>],
      [exists |-> TRUE, ioerror |-> FALSE, lines |-> << >>],
      [exists |-> TRUE, ioerror |-> FALSE,
       lines |-> << <<" ">>, <<"a","1">> >>],
      [exists |-> TRUE, ioerror |-> FALSE,
       lines |-> << <<"F","i","g">>, <<"d","a","t","e"," ">> >>],
      [exists |-> TRUE, ioerror |-> FALSE,
       lines |-> << <<"t","e","s","t">> >>],
      [exists |-> TRUE, ioerror |-> FALSE,
       lines |-> << <<"c","a","t">>, <<"f","i","g">> >>] }

\* the word files a session of Spec is started with, of one line each
SessionWordFiles ==
    { [exists |-> TRUE, ioerror |-> FALSE,
       lines |-> << <<"F","i","g"," ">> >>],
      [exists |-> TRUE, ioerror |-> FALSE,
       lines |-> << <<"d","a","t","e">> >>] }

\* play_menu's table: mode name -> exact_match
ModeNames == {"Streak", "Cities"}
exact_match_of(m) == m = "Cities"

(***************************************************************************)
(* The high-score document.  A value of the map is a legacy integer        *)
(* ("int"), a dict with a "score" key ("entry"), a dict without one        *)
(* ("noscore") or anything else ("junk").                                  *)
(***************************************************************************)
Dashes == <<"-", "-", "-">>
CPU == <<"C", "P", "U">>
UNK == <<"U", "N", "K">>

Entry(s, n) == [kind |-> "entry", score |-> s, name |-> n]
Legacy(v) == [kind |-> "int", score |-> v, name |-> << >>]
NoScoreDict == [kind |-> "noscore", score |-> 0, name |-> << >>]
Junk == [kind |-> "junk", score |-> 0, name |-> << >>]

\* kind: "missing", "corrupt" (not JSON, or unreadable), "notdict", "dict"
File(k, d) == [kind |-> k, data |-> d]
DictFile(d) == File("dict", d)

defaults == "Streak" :> Entry(0, Dashes)

\* dict.get(key, default)
dict_get(d, key, default) == IF key \in DOMAIN d THEN d[key] ELSE default

\* save_high_scores: ok = FALSE is open() raising IOError, which leaves the
\* document as it was
save_high_scores(file, scores, ok) == IF ok THEN DictFile(scores) ELSE file

migrate_value(v) ==
    IF v.kind = "int" THEN Entry(v.score, CPU)
    ELSE IF v.kind = "entry" THEN v
    ELSE Entry(0, Dashes)

needs_migration(data) == \E k \in DOMAIN data : data[k].kind = "int"

\* what load_high_scores returns
load_high_scores(file) ==
    IF file.kind # "dict" THEN defaults
    ELSE IF needs_migration(file.data)
         THEN [k \in DOMAIN file.data |-> migrate_value(file.data[k])]
         ELSE file.data

\* the document after load_high_scores ran (a migration saves)
file_after_load(file, ok) ==
    IF file.kind = "dict" /\ needs_migration(file.data)
    THEN save_high_scores(file, load_high_scores(file), ok)
    ELSE file

\* placeholders of locals that are not bound
NoWord == << >>
NoWpm == [num |-> 0, den |-> 1]

(***************************************************************************)
(* The clock.  time.time() returns any value not before the last one; the  *)
(* model samples the readings that matter to a round: no time passed, one  *)
(* second after the start, and one second before, at, and one second after *)
(* the deadline.                                                           *)
(***************************************************************************)
ClockReadings ==
    { t \in { now, start_time + 1, start_time + time_limit - 1,
              start_time + time_limit, start_time + time_limit + 1 } :
        t >= now }

\* DEFAULT_SETTINGS["time_limit"], what load_settings leaves in SETTINGS when
\* the settings document is absent or names no time_limit
DefaultTimeLimit == 30

\* the test of the checkpoints with > for >=
is_expired_strict(e, limit) == e > limit

\* a test of the checkpoints that never finds the clock expired
is_expired_never(e, limit) == FALSE

\* elapsed >= time_limit, the test of both checkpoints
is_expired(e, limit) == e >= limit

(***************************************************************************)
(* Initial state: the program as __main__ starts, with any of the sampled  *)
(* high-score documents on disk.                                           *)
(***************************************************************************)
InitialFiles ==
    { File("missing", << >>),
      File("corrupt", << >>),
      DictFile("Streak" :> Legacy(3)),
      DictFile("Streak" :> Entry(3, <<"A", "A", "A">>)
                 @@ "Cities" :> Entry(4, <<"B", "O", "B">>)),
      DictFile("Streak" :> NoScoreDict @@ "Cities" :> Junk) }

NoTier == [name |-> "unbound", mult2 |-> 0]
NoTierq == [c1 |-> 0, c2 |-> 0, t1 |-> NoTier, t2 |-> NoTier, g1 |-> NoTier,
            done |-> FALSE]

\* the round's and the session's locals, unbound
NoSession ==
    /\ mode_name' = "none"
    /\ current_words' = << >>
    /\ score' = 0 /\ total_chars_typed' = 0 /\ correct_words' = 0
    /\ combo' = 0 /\ start_time' = 0 /\ time_limit' = 0

NoTurn ==
    /\ elapsed' = 0 /\ tier_name' = "unbound" /\ multiplier' = 0
    /\ target_word' = NoWord /\ user_input' = << >>
    /\ points' = 0 /\ end_cause' = "none" /\ final_elapsed' = 0
    /\ wpm' = NoWpm /\ is_new_record' = FALSE

Init ==
    /\ pc = "start"
    /\ mode_name = "none" /\ current_words = << >>
    /\ time_limit_setting = DefaultTimeLimit
    /\ score = 0 /\ total_chars_typed = 0 /\ correct_words = 0 /\ combo = 0
    /\ start_time = 0 /\ time_limit = 0 /\ now = 0
    /\ elapsed = 0 /\ tier_name = "unbound" /\ multiplier = 0
    /\ target_word = NoWord /\ typed = << >> /\ user_input = << >>
    /\ points = 0 /\ end_cause = "none" /\ final_elapsed = 0
    /\ wpm = NoWpm /\ is_new_record = FALSE
    /\ hsFile \in InitialFiles
    /\ played = << >>
    /\ tierq = NoTierq

(***************************************************************************)
(* __main__: seed the document when it is missing, load the settings, show *)
(* the menus.                                                              *)
(***************************************************************************)
Main ==
    /\ pc = "start"
    /\ \E ok \in BOOLEAN :
         hsFile' = IF hsFile.kind = "missing"
                   THEN save_high_scores(hsFile, "Streak" :> Legacy(0), ok)
                   ELSE hsFile
    /\ time_limit_setting' = DefaultTimeLimit
    /\ pc' = "menu"
    /\ played' = << "splash" >>
    /\ UNCHANGED << mode_name, current_words, score, total_chars_typed,
                    correct_words, combo, start_time, time_limit, now,
                    elapsed, tier_name, multiplier, target_word, typed,
                    user_input, points, end_cause, final_elapsed, wpm,
                    is_new_record, tierq >>

(***************************************************************************)
(* streak_mode.                                                            *)
(***************************************************************************)
\* the top of the outer loop keeping combo and the clock of the round before
RoundStart_carries ==
    /\ score' = 0 /\ total_chars_typed' = 0 /\ correct_words' = 0
    /\ UNCHANGED << combo, now, start_time >>
    /\ time_limit' = time_limit_setting
    /\ NoTurn
    /\ played' = << "countdown" >>
    /\ pc' = "check"

\* the top of the outer loop: countdown(), the counters, start_time and
\* time_limit.  Only differences of clock readings are used, so the origin
\* of the clock is moved to the reading start_time takes.  Locals of the
\* previous round that are assigned again before they are read are set
\* back to their placeholders.
RoundStart ==
    /\ score' = 0 /\ total_chars_typed' = 0 /\ correct_words' = 0
    /\ combo' = 0
    /\ now' = 0
    /\ start_time' = now'
    /\ time_limit' = time_limit_setting
    /\ NoTurn
    /\ played' = << "countdown" >>
    /\ pc' = "check"

\* play_menu: a category is chosen and streak_mode is called
StreakMode(m, file) ==
    /\ pc = "menu"
    /\ mode_name' = m
    /\ current_words' = load_words(file, exact_match_of(m))
    /\ RoundStart
    /\ typed' = << >>
    /\ UNCHANGED << time_limit_setting, hsFile, tierq >>

\* random.choice(current_words), among the first maxPool words
Draws(maxPool) ==
    { current_words[k] : k \in 1..Min(Len(current_words), maxPool) }

\* the break of checkpoint 1 taken after the tier lookup and the draw
ExpiredBeforeWord_drawn ==
    /\ played' = << "victory" >>
    /\ end_cause' = "TIMED_OUT"
    /\ pc' = "over"
    /\ tier_name' = get_combo_tier(combo).name
    /\ multiplier' = get_combo_tier(combo).mult2
    /\ target_word' = current_words[1]
    /\ UNCHANGED << typed, user_input, points >>

\* checkpoint 1 found the clock expired: play "victory" and break
ExpiredBeforeWord ==
    /\ played' = << "victory" >>
    /\ end_cause' = "TIMED_OUT"
    /\ pc' = "over"
    /\ UNCHANGED << tier_name, multiplier, target_word, typed, user_input,
                    points >>

\* checkpoint 1, the tier snapshot, the draw and the display of the word.
\* The answer of the turn before is not read again: typed, user_input and
\* points go back to their placeholders when a word is shown.
BeginTurn(maxCorrect, maxPool) ==
    /\ pc = "check"
    /\ \E t \in ClockReadings :
         /\ now' = t
         /\ elapsed' = t - start_time
         /\ IF is_expired(elapsed', time_limit)
            THEN ExpiredBeforeWord
            ELSE /\ correct_words < maxCorrect
                 /\ tier_name' = get_combo_tier(combo).name
                 /\ multiplier' = get_combo_tier(combo).mult2
                 /\ \E w \in Draws(maxPool) : target_word' = w
                 /\ typed' = << >> /\ user_input' = << >> /\ points' = 0
                 /\ played' = << >>
                 /\ pc' = "input"
                 /\ UNCHANGED end_cause
    /\ UNCHANGED << mode_name, current_words, time_limit_setting, score,
                    total_chars_typed, correct_words, combo, start_time,
                    time_limit, final_elapsed, wpm, is_new_record, hsFile,
                    tierq >>

\* the lines the player may type for a word: the word, the word between
\* spaces, the word in the other case, nothing
other_case(w) == IF upper(w) # w THEN upper(w) ELSE lower(w)
TypedLines(w) == { w, << " " >> \o w \o << " " >>, other_case(w), << >> }

\* the comparison made without regard to case
is_correct_nocase(u, w) == lower(u) = lower(w)

\* user_input == target_word
is_correct(u, w) == u = w

\* the correct branch with the multiplier looked up after combo += 1
Scored_late_multiplier ==
    /\ combo' = combo + 1
    /\ points' = (Len(target_word) * get_combo_tier(combo').mult2) \div 2
    /\ score' = score + points'
    /\ total_chars_typed' = total_chars_typed + Len(target_word)
    /\ correct_words' = correct_words + 1
    /\ played' = IF combo' \in TierUpCombos
                 THEN << "correct", "levelup" >>
                 ELSE << "correct" >>

\* the correct branch playing "levelup" on every turn inside a tier
Scored_levelup_in_tier ==
    /\ combo' = combo + 1
    /\ points' = (Len(target_word) * multiplier) \div 2
    /\ score' = score + points'
    /\ total_chars_typed' = total_chars_typed + Len(target_word)
    /\ correct_words' = correct_words + 1
    /\ played' = IF get_combo_tier(combo').name # ""
                 THEN << "correct", "levelup" >>
                 ELSE << "correct" >>

\* the correct branch awarding the length of the word whatever the tier
Scored_flat ==
    /\ combo' = combo + 1
    /\ points' = Len(target_word)
    /\ score' = score + points'
    /\ total_chars_typed' = total_chars_typed + Len(target_word)
    /\ correct_words' = correct_words + 1
    /\ played' = IF combo' \in TierUpCombos
                 THEN << "correct", "levelup" >>
                 ELSE << "correct" >>

\* combo += 1 ... correct_words += 1, and the sounds of a correct answer
Scored ==
    /\ combo' = combo + 1
    /\ points' = (Len(target_word) * multiplier) \div 2
    /\ score' = score + points'
    /\ total_chars_typed' = total_chars_typed + Len(target_word)
    /\ correct_words' = correct_words + 1
    /\ played' = IF combo' \in TierUpCombos
                 THEN << "correct", "levelup" >>
                 ELSE << "correct" >>

\* the wrong branch without the reset of combo
Failed_keeps_combo ==
    /\ played' = << "gameover" >>
    /\ end_cause' = "FAILED"
    /\ pc' = "over"
    /\ UNCHANGED << score, total_chars_typed, correct_words, combo, points >>

\* the wrong branch taking the score back as well
Failed_clears_score ==
    /\ combo' = 0
    /\ score' = 0
    /\ played' = << "gameover" >>
    /\ end_cause' = "FAILED"
    /\ pc' = "over"
    /\ UNCHANGED << total_chars_typed, correct_words, points >>

\* combo = 0, "gameover" and break
Failed ==
    /\ combo' = 0
    /\ played' = << "gameover" >>
    /\ end_cause' = "FAILED"
    /\ pc' = "over"
    /\ UNCHANGED << score, total_chars_typed, correct_words, points >>

\* the break of checkpoint 2 taken after the answer was scored
ExpiredAfterInput_scored ==
    /\ end_cause' = "TIMED_OUT"
    /\ pc' = "over"
    /\ IF user_input' = target_word
       THEN Scored
       ELSE /\ played' = << "victory" >>
            /\ UNCHANGED << score, total_chars_typed, correct_words, combo,
                            points >>

\* checkpoint 2 breaking with combo set back to 0
ExpiredAfterInput_resets_combo ==
    /\ played' = << "victory" >>
    /\ end_cause' = "TIMED_OUT"
    /\ pc' = "over"
    /\ combo' = 0
    /\ UNCHANGED << score, total_chars_typed, correct_words, points >>

\* checkpoint 2 playing "victory" without the break
ExpiredAfterInput_continues ==
    /\ played' = << "victory" >>
    /\ pc' = "check"
    /\ UNCHANGED << end_cause, score, total_chars_typed, correct_words,
                    combo, points >>

\* checkpoint 2 found the clock expired: play "victory" and break, the
\* answer is not looked at
ExpiredAfterInput ==
    /\ played' = << "victory" >>
    /\ end_cause' = "TIMED_OUT"
    /\ pc' = "over"
    /\ UNCHANGED << score, total_chars_typed, correct_words, combo, points >>

\* input returned a line: checkpoint 2, then the sudden-death check
Answer(line) ==
    /\ pc = "input"
    /\ typed' = line
    /\ user_input' = strip(line)
    /\ \E t \in ClockReadings :
         /\ now' = t
         /\ elapsed' = t - start_time
         /\ IF is_expired(elapsed', time_limit)
            THEN ExpiredAfterInput
            ELSE IF is_correct(user_input', target_word)
            THEN /\ Scored
                 /\ pc' = "check"
                 /\ UNCHANGED end_cause
            ELSE Failed
    /\ UNCHANGED << mode_name, current_words, time_limit_setting,
                    start_time, time_limit, tier_name, multiplier,
                    target_word, final_elapsed, wpm, is_new_record, hsFile, tierq >>

\* the interrupt taken for a break of the round loop
AnswerInterrupted_summarised ==
    /\ pc = "input"
    /\ pc' = "over"
    /\ end_cause' = "INTERRUPTED"
    /\ played' = << >>
    /\ UNCHANGED << mode_name, current_words, time_limit_setting, score,
                    total_chars_typed, correct_words, combo, start_time,
                    time_limit, now, elapsed, tier_name, multiplier,
                    target_word, typed, user_input, points, final_elapsed,
                    wpm, is_new_record, hsFile, tierq >>

\* input raised EOFError or KeyboardInterrupt: streak_mode returns
AnswerInterrupted ==
    /\ pc = "input"
    /\ pc' = "menu"
    /\ NoSession
    /\ elapsed' = 0 /\ tier_name' = "unbound" /\ multiplier' = 0
    /\ target_word' = NoWord /\ typed' = << >> /\ user_input' = << >>
    /\ points' = 0 /\ end_cause' = "INTERRUPTED" /\ final_elapsed' = 0
    /\ wpm' = NoWpm /\ is_new_record' = FALSE
    /\ played' = << >>
    /\ UNCHANGED << time_limit_setting, now, hsFile, tierq >>

(***************************************************************************)
(* The game-over screen and the high-score check.                          *)
(***************************************************************************)
\* the final reading taken as it is
floor_elapsed_none(e) == e

\* if final_elapsed < 1.0: final_elapsed = 1.0
floor_elapsed(e) == IF e < 1 THEN 1 ELSE e

\* (total_chars_typed / 5.0) / (final_elapsed / 60.0), as a fraction
wpm_of(chars, secs) == [num |-> chars * 60, den |-> 5 * secs]

\* the comparison turned around
beats_reversed(s, best) == s < best

\* the comparison letting a tie through
beats_or_equal(s, best) == s >= best

\* every final score taken for a record
beats_always(s, best) == TRUE

\* score > current_best
beats(s, best) == s > best

\* get_high_score_data with {"score": 0, "name": "CPU"} for its default
get_high_score_data_cpu(file, m) ==
    dict_get(load_high_scores(file), m, Entry(0, CPU))

\* get_high_score_data: the entry load_high_scores holds for the mode, the
\* default entry when it holds none
get_high_score_data(file, m) ==
    dict_get(load_high_scores(file), m, Entry(0, Dashes))

\* typing_game.py: load_high_scores, the document as it is
tg_load_high_scores(file) ==
    IF file.kind # "dict" THEN "Streak" :> Legacy(0) ELSE file.data

\* typing_game.py: check_high_score.  The comparison of score with a stored
\* value that is no number raises TypeError.
tg_check_high_score(file, m, s, ok) ==
    LET scores == tg_load_high_scores(file)
        current_best == dict_get(scores, m, Legacy(0))
    IN IF current_best.kind # "int"
       THEN [raised |-> TRUE, new |-> FALSE, file |-> file]
       ELSE IF s > current_best.score
       THEN [raised |-> FALSE, new |-> TRUE,
             file |-> save_high_scores(file,
                        [k \in DOMAIN scores \cup {m} |->
                            IF k = m THEN Legacy(s) ELSE scores[k]], ok)]
       ELSE [raised |-> FALSE, new |-> FALSE, file |-> file]

(***************************************************************************)
(* typing_game.py: streak_mode.  The locals of its round are a record l;   *)
(* l.at is the place of the round (as pc), l.cause the way its loop was    *)
(* left; u, e and pts are its user_input, elapsed and points.  The copy    *)
(* plays no sound.                                                         *)
(***************************************************************************)
\* time_limit = 30.0
tg_time_limit == 30

\* the locals as the round starts, start_time = time.time() = t
tg_round_start(t) ==
    [score |-> 0, total_chars_typed |-> 0, correct_words |-> 0,
     combo |-> 0, start_time |-> t, time_limit |-> tg_time_limit,
     multiplier |-> 0, target_word |-> NoWord, at |-> "check",
     cause |-> "none"]

\* checkpoint 1 at the reading t, the tier snapshot and the draw of w
tg_begin_turn(l, t, w) ==
    LET e == t - l.start_time
    IN IF e >= l.time_limit
       THEN [l EXCEPT !.at = "over", !.cause = "TIMED_OUT"]
       ELSE [l EXCEPT !.multiplier = tg_get_combo_tier(l.combo).mult2,
                      !.target_word = w,
                      !.at = "input"]

\* the answer compared as it was typed, without the strip
tg_answer_unstripped(l, line, t) ==
    LET u == line
        e == t - l.start_time
        word_len == Len(l.target_word)
        pts == (word_len * l.multiplier) \div 2
    IN IF e >= l.time_limit
       THEN [l EXCEPT !.at = "over", !.cause = "TIMED_OUT"]
       ELSE IF u = l.target_word
       THEN [l EXCEPT !.combo = @ + 1,
                      !.score = @ + pts,
                      !.total_chars_typed = @ + word_len,
                      !.correct_words = @ + 1,
                      !.at = "check"]
       ELSE [l EXCEPT !.combo = 0, !.at = "over", !.cause = "FAILED"]

\* the prompt returned line: .strip(), checkpoint 2 at the reading t, then
\* the sudden-death check with its two branches
tg_answer(l, line, t) ==
    LET u == strip(line)
        e == t - l.start_time
        word_len == Len(l.target_word)
        pts == (word_len * l.multiplier) \div 2
    IN IF e >= l.time_limit
       THEN [l EXCEPT !.at = "over", !.cause = "TIMED_OUT"]
       ELSE IF u = l.target_word
       THEN [l EXCEPT !.combo = @ + 1,
                      !.score = @ + pts,
                      !.total_chars_typed = @ + word_len,
                      !.correct_words = @ + 1,
                      !.at = "check"]
       ELSE [l EXCEPT !.combo = 0, !.at = "over", !.cause = "FAILED"]

\* the prompt raised EOFError or KeyboardInterrupt: return
tg_answer_interrupted(l) ==
    [l EXCEPT !.at = "menu", !.cause = "INTERRUPTED"]

\* the game-over block: check_high_score(mode_name, score) decides, or
\* raises; the locals stay
tg_game_over(l, file, m, ok) == tg_check_high_score(file, m, l.score, ok)

\* the final clock reading, wpm, get_high_score_data and the comparison.
\* hs_data.get raises AttributeError when the stored value is no dict.
\* The locals of the last turn are not read after the round loop: they go
\* back to their placeholders.
GameOver ==
    /\ pc = "over"
    /\ \E t \in ClockReadings, ok \in BOOLEAN :
         LET hs_data == get_high_score_data(hsFile, mode_name)
             current_best == IF hs_data.kind = "entry" THEN hs_data.score
                             ELSE 0
         IN /\ now' = t
            /\ final_elapsed' = floor_elapsed(t - start_time)
            /\ wpm' = wpm_of(total_chars_typed, final_elapsed')
            /\ hsFile' = file_after_load(hsFile, ok)
            /\ IF hs_data.kind = "junk"
               THEN /\ pc' = "crashed"
                    /\ played' = << >>
                    /\ UNCHANGED is_new_record
               ELSE /\ is_new_record' = beats(score, current_best)
                    /\ played' = IF is_new_record' THEN << "levelup" >>
                                 ELSE << >>
                    /\ pc' = IF is_new_record' THEN "name" ELSE "prompt"
    /\ elapsed' = 0 /\ tier_name' = "unbound" /\ multiplier' = 0
    /\ target_word' = NoWord /\ typed' = << >> /\ user_input' = << >>
    /\ points' = 0
    /\ UNCHANGED << mode_name, current_words, time_limit_setting, score,
                    total_chars_typed, correct_words, combo, start_time,
                    time_limit, end_cause, tierq >>

\* the initials cut and upper-cased without the strip
initials_of_untrimmed(line) ==
    LET name_input == upper(line)
        cut == IF Len(name_input) > 3 THEN SubSeq(name_input, 1, 3)
               ELSE name_input
    IN IF cut # << >> THEN cut ELSE UNK

\* .strip().upper(), then the first three characters, "UNK" when empty
initials_of(line) ==
    LET name_input == upper(strip(line))
        cut == IF Len(name_input) > 3 THEN SubSeq(name_input, 1, 3)
               ELSE name_input
    IN IF cut # << >> THEN cut ELSE UNK

\* a map of the new entry alone
with_record_only(all_scores, m, s, n) == m :> Entry(s, n)

\* all_scores[mode_name] = {'score': score, 'name': name_input}
with_record(all_scores, m, s, n) ==
    [k \in DOMAIN all_scores \cup {m} |->
        IF k = m THEN Entry(s, n) ELSE all_scores[k]]

NameLines ==
    { << >>, << " " >>, << "a", "l" >>,
      << " ", "b", "o", "b", "b", "y" >> }

\* the initials prompt returned a line: load, set the entry, save
NameEntry(line) ==
    /\ pc = "name"
    /\ \E okLoad \in BOOLEAN, okSave \in BOOLEAN :
         LET loaded == load_high_scores(hsFile)
             after == file_after_load(hsFile, okLoad)
         IN hsFile' = save_high_scores(
                after, with_record(loaded, mode_name, score,
                                   initials_of(line)), okSave)
    /\ typed' = line
    /\ pc' = "prompt"
    /\ played' = << >>
    /\ UNCHANGED << mode_name, current_words, time_limit_setting, score,
                    total_chars_typed, correct_words, combo, start_time,
                    time_limit, now, elapsed, tier_name, multiplier,
                    target_word, user_input, points, end_cause,
                    final_elapsed, wpm, is_new_record, tierq >>

\* cmd == 'r' after .strip().lower()
is_retry(line) == lower(strip(line)) = << "r" >>

PromptLines == { << >>, << "r" >>, << "R", " " >>, << "m" >> }

\* the retry prompt returned a line: another round, or back to the menu
Prompt(line) ==
    /\ pc = "prompt"
    /\ typed' = line
    /\ IF is_retry(line)
       THEN /\ RoundStart
            /\ UNCHANGED << mode_name, current_words >>
       ELSE /\ pc' = "menu"
            /\ NoSession /\ NoTurn
            /\ played' = << >>
            /\ UNCHANGED now
    /\ UNCHANGED << time_limit_setting, hsFile, tierq >>

\* the initials prompt, the retry prompt or the confirmation prompt of the
\* reset raised: neither streak_mode, play_menu nor settings_menu catches
\* it there.  __main__ catches KeyboardInterrupt and exits; EOFError is
\* caught nowhere.
PromptInterrupted(exc) ==
    /\ pc \in {"name", "prompt", "confirm"}
    /\ pc' = IF exc = "KeyboardInterrupt" THEN "exited" ELSE "crashed"
    /\ played' = << >>
    /\ UNCHANGED << mode_name, current_words, time_limit_setting, score,
                    total_chars_typed, correct_words, combo, start_time,
                    time_limit, now, elapsed, tier_name, multiplier,
                    target_word, typed, user_input, points, end_cause,
                    final_elapsed, wpm, is_new_record, hsFile, tierq >>

(***************************************************************************)
(* The menus around a session.                                             *)
(***************************************************************************)
MenuUnchanged ==
    UNCHANGED << mode_name, current_words, score, total_chars_typed,
                 correct_words, combo, start_time, time_limit, now, elapsed,
                 tier_name, multiplier, target_word, typed, user_input,
                 points, end_cause, final_elapsed, wpm, is_new_record,
                 tierq >>

\* show_high_scores: a read of the document (a migration saves)
ShowHighScores ==
    /\ pc = "menu"
    /\ \E ok \in BOOLEAN : hsFile' = file_after_load(hsFile, ok)
    /\ pc' = "menu"
    /\ played' = << >>
    /\ UNCHANGED time_limit_setting
    /\ MenuUnchanged

\* settings_menu, choice 4: the warning is shown and the confirmation is
\* waited for
SettingsReset ==
    /\ pc = "menu"
    /\ pc' = "confirm"
    /\ played' = << >>
    /\ UNCHANGED << time_limit_setting, hsFile >>
    /\ MenuUnchanged

\* the reset made whatever the line is
is_confirmed_any(line) == TRUE

\* confirm == 'y' after .strip().lower()
is_confirmed(line) == lower(strip(line)) = << "y" >>

ConfirmLines == { << "y" >>, << "Y", " " >>, << "n" >>, << >> }

\* the confirmation prompt returned a line: reset all high scores, or not
ResetHighScores(line) ==
    /\ pc = "confirm"
    /\ typed' = line
    /\ \E ok \in BOOLEAN :
         hsFile' = IF is_confirmed(line)
                   THEN save_high_scores(hsFile, defaults, ok)
                   ELSE hsFile
    /\ pc' = "menu"
    /\ played' = << >>
    /\ UNCHANGED << mode_name, current_words, time_limit_setting, score,
                    total_chars_typed, correct_words, combo, start_time,
                    time_limit, now, elapsed, tier_name, multiplier,
                    target_word, user_input, points, end_cause,
                    final_elapsed, wpm, is_new_record, tierq >>

\* main_menu: quit
Quit ==
    /\ pc = "menu"
    /\ pc' = "exited"
    /\ played' = << >>
    /\ UNCHANGED << time_limit_setting, hsFile >>
    /\ MenuUnchanged

Next ==
    \/ Main
    \/ \E m \in ModeNames, file \in SessionWordFiles : StreakMode(m, file)
    \/ BeginTurn(MaxCorrect, MaxPool)
    \/ \E line \in TypedLines(target_word) : Answer(line)
    \/ AnswerInterrupted
    \/ GameOver
    \/ \E line \in NameLines : NameEntry(line)
    \/ \E line \in PromptLines : Prompt(line)
    \/ \E exc \in {"KeyboardInterrupt", "EOFError"} : PromptInterrupted(exc)
    \/ ShowHighScores
    \/ SettingsReset
    \/ \E line \in ConfirmLines : ResetHighScores(line)
    \/ Quit

Spec == Init /\ [][Next]_vars

(***************************************************************************)
(* RoundSpec: one round, from the state streak_mode is in after the top of *)
(* its outer loop to the game-over screen, with the deeper bounds.         *)
(***************************************************************************)
RoundInit ==
    /\ pc = "check"
    /\ mode_name \in ModeNames
    /\ \E file \in WordFiles :
         current_words = load_words(file, exact_match_of(mode_name))
    /\ time_limit_setting = DefaultTimeLimit
    /\ score = 0 /\ total_chars_typed = 0 /\ correct_words = 0 /\ combo = 0
    /\ now = 0 /\ start_time = now /\ time_limit = time_limit_setting
    /\ elapsed = 0 /\ tier_name = "unbound" /\ multiplier = 0
    /\ target_word = NoWord /\ typed = << >> /\ user_input = << >>
    /\ points = 0 /\ end_cause = "none" /\ final_elapsed = 0
    /\ wpm = NoWpm /\ is_new_record = FALSE
    /\ hsFile = DictFile("Streak" :> Entry(3, <<"A", "A", "A">>))
    /\ played = << "countdown" >>
    /\ tierq = NoTierq

RoundNext ==
    \/ BeginTurn(DeepCorrect, MaxPool)
    \/ \E line \in TypedLines(target_word) : Answer(line)
    \/ AnswerInterrupted
    \/ GameOver

RoundSpec == RoundInit /\ [][RoundNext]_vars

\* RoundSpec with its scheduling: streak_mode goes on to the next
\* checkpoint by itself, and the input request of a turn returns, with a
\* line or with an interrupt.  The clock advances with every correct
\* answer (time.sleep(0.2) in the correct branch), which is what the bound
\* on the correct answers of a round stands for.
RoundLiveSpec ==
    /\ RoundSpec
    /\ WF_vars(BeginTurn(DeepCorrect, MaxPool))
    /\ WF_vars((\E line \in TypedLines(target_word) : Answer(line))
                 \/ AnswerInterrupted)

(***************************************************************************)
(* TierSpec: get_combo_tier applied to two combo values, and its copy in   *)
(* typing_game.py to the first.                                            *)
(***************************************************************************)
TierInit ==
    /\ pc = "start"
    /\ mode_name = "none" /\ current_words = << >>
    /\ time_limit_setting = DefaultTimeLimit
    /\ score = 0 /\ total_chars_typed = 0 /\ correct_words = 0 /\ combo = 0
    /\ start_time = 0 /\ time_limit = 0 /\ now = 0
    /\ elapsed = 0 /\ tier_name = "unbound" /\ multiplier = 0
    /\ target_word = NoWord /\ typed = << >> /\ user_input = << >>
    /\ points = 0 /\ end_cause = "none" /\ final_elapsed = 0
    /\ wpm = NoWpm /\ is_new_record = FALSE
    /\ hsFile = File("missing", << >>)
    /\ played = << >>
    /\ \E a \in 0..MaxCombo, b \in 0..MaxCombo :
         tierq = [c1 |-> a, c2 |-> b, t1 |-> NoTier, t2 |-> NoTier,
                  g1 |-> NoTier, done |-> FALSE]

TierLookup ==
    /\ ~tierq.done
    /\ tierq' = [tierq EXCEPT !.t1 = get_combo_tier(tierq.c1),
                              !.t2 = get_combo_tier(tierq.c2),
                              !.g1 = tg_get_combo_tier(tierq.c1),
                              !.done = TRUE]
    /\ UNCHANGED << pc, mode_name, current_words, time_limit_setting, score,
                    total_chars_typed, correct_words, combo, start_time,
                    time_limit, now, elapsed, tier_name, multiplier,
                    target_word, typed, user_input, points, end_cause,
                    final_elapsed, wpm, is_new_record, hsFile, played >>

TierNext == TierLookup

TierSpec == TierInit /\ [][TierNext]_vars

(***************************************************************************)
(* What the claims say.                                                    *)
(***************************************************************************)
Range(q) == { q[k] : k \in 1..Len(q) }

\* a step in which input returned a line (checkpoint 2 was taken)
AnswerStep == pc = "input" /\ pc' \in {"check", "over"}
\* ... and the answer was judged correct: the round goes on
JudgedCorrectStep == pc = "input" /\ pc' = "check"

\* C1: a turn judged correct awards floor(len(target_word) * m), m the
\* multiplier of get_combo_tier on the combo before the increment (the one
\* shown with the word); score grows by the points, combo and
\* correct_words by 1, total_chars_typed by the length of the word.
C1_CorrectAnswerScoring ==
    [][ JudgedCorrectStep =>
          /\ multiplier = get_combo_tier(combo).mult2
          /\ points' = (Len(target_word) * get_combo_tier(combo).mult2) \div 2
          /\ score' = score + points'
          /\ combo' = combo + 1
          /\ correct_words' = correct_words + 1
          /\ total_chars_typed' = total_chars_typed + Len(target_word) ]_vars

\* a word of three letters answered at combo 3 (x1.5): 4 points, not 4.5
C1_Witness ==
    /\ pc = "check" /\ combo = 4 /\ Len(target_word) = 3 /\ points = 4

\* C2 as stated: whenever the typed answer differs from the target word,
\* combo is 0 and the round ends FAILED.
C2_Original ==
    [][ (AnswerStep /\ typed' # target_word) =>
          (combo' = 0 /\ pc' = "over" /\ end_cause' = "FAILED") ]_vars

\* C2, amended: when checkpoint 2 finds the clock not expired and the typed
\* answer without its leading and trailing whitespace differs from the
\* target word, combo is 0 and the round ends FAILED, whatever time
\* remains; after the end of a round no word of it is presented.
C2_WrongAnswerEndsRound ==
    [][ /\ (AnswerStep /\ elapsed' < time_limit
                /\ strip(typed') # target_word) =>
              (combo' = 0 /\ pc' = "over" /\ end_cause' = "FAILED")
        /\ (pc = "over" => pc' \in {"name", "prompt", "crashed"}) ]_vars

\* a wrong answer after correct ones, with the whole time left
C2_Witness ==
    /\ pc = "over" /\ end_cause = "FAILED" /\ combo = 0
    /\ correct_words >= 3 /\ elapsed = 0
    /\ strip(typed) # target_word

\* C3: when checkpoint 2 finds the clock expired the round ends TIMED_OUT
\* and score, combo, total_chars_typed and correct_words are as before the
\* turn, whatever was typed.
C3_ExpiredAnswerNotJudged ==
    [][ (AnswerStep /\ elapsed' >= time_limit) =>
          /\ pc' = "over" /\ end_cause' = "TIMED_OUT"
          /\ score' = score /\ combo' = combo
          /\ total_chars_typed' = total_chars_typed
          /\ correct_words' = correct_words
          /\ played' = << "victory" >> ]_vars

\* the right word was typed and the clock expired while it was typed
C3_Witness ==
    /\ pc = "over" /\ end_cause = "TIMED_OUT"
    /\ typed = target_word /\ target_word # NoWord /\ points = 0
    /\ combo >= 1 /\ elapsed >= time_limit

\* C4: a clock expired at the first checkpoint of a round ends it
\* TIMED_OUT with no tier lookup, no draw and no input, all counters 0,
\* and the summary of such a round has wpm 0.
C4_ExpiredAtRoundStart ==
    [][ /\ (pc = "check" /\ target_word = NoWord
                /\ elapsed' >= time_limit) =>
              /\ pc' = "over" /\ end_cause' = "TIMED_OUT"
              /\ target_word' = NoWord /\ tier_name' = "unbound"
              /\ multiplier' = 0 /\ typed' = << >>
              /\ score' = 0 /\ correct_words' = 0
              /\ total_chars_typed' = 0
        /\ (pc = "over" /\ target_word = NoWord
                /\ pc' \in {"name", "prompt"}) =>
              wpm'.num = 0 ]_vars

C4_Witness ==
    /\ pc = "over" /\ end_cause = "TIMED_OUT" /\ target_word = NoWord
    /\ elapsed >= time_limit /\ score = 0

\* C5: while a word is presented, the reading of the checkpoint before it
\* was strictly below time_limit.
C5_WordOnlyBeforeExpiry == pc = "input" => elapsed < time_limit

\* a word presented one second before the deadline
C5_Witness == pc = "input" /\ elapsed = time_limit - 1 /\ combo >= 1

\* the tier table of the specification
TabulatedTier(c) ==
    CASE c \in 0..2 -> [name |-> "", mult2 |-> 2]
      [] c \in 3..4 -> [name |-> "FLOW STATE", mult2 |-> 3]
      [] c \in 5..6 -> [name |-> "OVERCLOCKED", mult2 |-> 4]
      [] c \in 7..9 -> [name |-> "SURGE", mult2 |-> 6]
      [] c \in 10..11 -> [name |-> "UNSTOPPABLE", mult2 |-> 10]
      [] OTHER -> [name |-> "GOD MODE", mult2 |-> 16]

\* C6: get_combo_tier, in both files, returns the tabulated tier for every
\* combo >= 0.
C6_TierTable ==
    tierq.done =>
        /\ tierq.t1 = TabulatedTier(tierq.c1)
        /\ tierq.t2 = TabulatedTier(tierq.c2)
        /\ tierq.g1 = TabulatedTier(tierq.c1)

C6_Witness ==
    /\ tierq.done /\ tierq.c1 = 12 /\ tierq.t1.name = "GOD MODE"
    /\ tierq.c2 = 2 /\ tierq.t2.mult2 = 2

\* C7: the multiplier never decreases as combo grows, and is at least 1.0.
C7_TierMonotonic ==
    tierq.done =>
        /\ tierq.t1.mult2 >= 2 /\ tierq.t2.mult2 >= 2
        /\ (tierq.c1 <= tierq.c2 => tierq.t1.mult2 <= tierq.t2.mult2)

C7_Witness ==
    /\ tierq.done /\ tierq.c1 = 6 /\ tierq.c2 = 7
    /\ tierq.t1.mult2 < tierq.t2.mult2

\* C8: in the steps of a turn, "levelup" is played exactly when the answer
\* was judged correct and combo after the increment is 3, 5, 7, 10 or 12.
C8_TierUpOnBoundary ==
    [][ (pc = "check" \/ pc = "input") =>
          ("levelup" \in Range(played')
             <=> (JudgedCorrectStep /\ combo' \in {3, 5, 7, 10, 12})) ]_vars

C8_Witness ==
    /\ pc = "check" /\ combo = 12 /\ played = << "correct", "levelup" >>

\* C9 as stated: an answer is judged correct exactly when the typed text
\* is the target word, character for character.
C9_Original ==
    [][ (AnswerStep /\ elapsed' < time_limit) =>
          (JudgedCorrectStep <=> typed' = target_word) ]_vars

\* C9, amended: an answer is judged correct exactly when the typed text
\* without its leading and trailing whitespace is the target word,
\* character for character and case-sensitive.
C9_JudgedOnStrippedText ==
    [][ (AnswerStep /\ elapsed' < time_limit) =>
          (JudgedCorrectStep <=> strip(typed') = target_word) ]_vars

\* the word typed between two spaces was judged correct
C9_Witness ==
    /\ pc = "check" /\ points > 0 /\ typed # target_word
    /\ strip(typed) = target_word

\* the score the document stores for a mode, 0 when it stores none
StoredScore(file, m) ==
    IF file.kind = "dict" /\ m \in DOMAIN file.data
          /\ file.data[m].kind \in {"int", "entry"}
    THEN file.data[m].score
    ELSE 0

\* a confirmed reset: settings_menu wrote the default map
ResetStep == pc = "confirm" /\ hsFile' = DictFile(defaults)

RecordCheckStep == pc = "over" /\ pc' \in {"name", "prompt"}

\* the initials prompt returned and the retry prompt is shown
NameEnteredStep == pc = "name" /\ pc' = "prompt"

\* no entry of the ledger reads differently after the step
LedgerUnchangedStep ==
    \A m \in ModeNames :
        get_high_score_data(hsFile', m) = get_high_score_data(hsFile, m)

\* what C11 says of the end of a round, apart from the store of a record
C11_DeclaredAndKept ==
    /\ RecordCheckStep =>
          /\ is_new_record' <=> score > StoredScore(hsFile, mode_name)
          /\ pc' = "name" <=> is_new_record'
          /\ LedgerUnchangedStep
    /\ (pc = "prompt" /\ ~is_new_record) => LedgerUnchangedStep
    /\ pc = "over" =>
          \A ok \in BOOLEAN :
            LET r == tg_check_high_score(hsFile, mode_name, score, ok)
            IN \/ r.raised
               \/ /\ r.new <=> score > StoredScore(hsFile, mode_name)
                  /\ ~r.new => r.file = hsFile
                  /\ (r.new /\ ok) =>
                        StoredScore(r.file, mode_name) = score

\* C11 as stated: a new record is declared exactly when the final score is
\* above the stored best; a score not above it leaves the entry as it was,
\* and a score above it becomes the stored score.
C11_Original ==
    [][ /\ C11_DeclaredAndKept
        /\ (pc = "name" /\ pc' # "name") =>
              StoredScore(hsFile', mode_name) = score ]_vars

\* C11, amended: a new record is declared exactly when the final score is
\* above the stored best; a score not above it leaves the entry as it was;
\* a score above it becomes the stored score when the initials prompt
\* returns and the document is written, and a write that fails leaves
\* every entry as it was.
C11_RecordOnStrictlyGreater ==
    [][ /\ C11_DeclaredAndKept
        /\ NameEnteredStep =>
              \/ StoredScore(hsFile', mode_name) = score
              \/ LedgerUnchangedStep ]_vars

\* a record of 6 was declared over a stored 3 and stored under initials
C11_Witness ==
    /\ pc = "prompt" /\ is_new_record /\ score = 6
    /\ StoredScore(hsFile, mode_name) = 6
    /\ hsFile.data[mode_name].name = << "A", "L" >>

\* the name entry wrote the record: the stored score, below the final
\* score before the step, is the final score after it
NameWrittenStep ==
    NameEnteredStep /\ StoredScore(hsFile', mode_name) = score

\* the stored holder name is not empty, of at most 3 characters, upper-cased
WellFormedName(n) == n # << >> /\ Len(n) <= 3 /\ upper(n) = n

\* C12 as stated: a holder name written by a name entry is not empty, of at
\* most 3 characters and upper-cased; input of more than 3 characters is
\* cut to its first 3 and empty input is stored as "UNK".
C12_Original ==
    [][ NameWrittenStep =>
          LET n == hsFile'.data[mode_name].name
          IN /\ WellFormedName(n)
             /\ Len(typed') > 3 => n = upper(SubSeq(typed', 1, 3))
             /\ typed' = << >> => n = UNK ]_vars

\* C12, amended: a holder name written by a name entry is not empty, of at
\* most 3 characters and upper-cased; the input is stripped of leading and
\* trailing whitespace first, then more than 3 characters are cut to the
\* first 3, and input that is empty after the strip is stored as "UNK".
C12_HolderNameShape ==
    [][ NameWrittenStep =>
          LET n == hsFile'.data[mode_name].name
              t == upper(strip(typed'))
          IN /\ WellFormedName(n)
             /\ Len(t) > 3 => n = SubSeq(t, 1, 3)
             /\ (t # << >> /\ Len(t) <= 3) => n = t
             /\ t = << >> => n = UNK ]_vars

\* " bobby" was typed at the initials prompt and "BOB" was stored
C12_Witness ==
    /\ pc = "prompt" /\ typed = << " ", "b", "o", "b", "b", "y" >>
    /\ StoredScore(hsFile, mode_name) = score
    /\ hsFile.data[mode_name].name = << "B", "O", "B" >>

\* the modes the persisted map has an entry for
Keys(file) == IF file.kind = "dict" THEN DOMAIN file.data ELSE {}

\* C13: the query made at the end of a round for a mode the persisted map
\* has no entry for returns {score 0, name "---"}, so a record is declared
\* exactly for a score above 0, and adds no entry to the persisted map.
C13_AbsentModeDefault ==
    [][ (pc = "over" /\ mode_name \notin Keys(hsFile)) =>
          /\ get_high_score_data(hsFile, mode_name) = Entry(0, Dashes)
          /\ pc' \in {"name", "prompt"}
          /\ is_new_record' <=> score > 0
          /\ Keys(hsFile') = Keys(hsFile) ]_vars

\* a round of "Cities" ended at 0 while the map held "Streak" only, and
\* the map holds no "Cities" after the query
C13_Witness ==
    /\ pc = "prompt" /\ mode_name = "Cities" /\ score = 0
    /\ ~is_new_record
    /\ Keys(hsFile) = {"Streak"}

\* C14: when the program starts with no persisted high-score document, the
\* map the first read of the session sees holds only "Streak", with score 0
\* and holder name "---".  __main__ runs before any read, and what a read
\* sees is what load_high_scores returns for the document __main__ left.
C14_FreshStartDefaults ==
    [][ (pc = "start" /\ hsFile.kind = "missing") =>
          load_high_scores(hsFile') = defaults ]_vars

\* the confirmation prompt of the reset returned
ConfirmAnsweredStep == pc = "confirm" /\ pc' = "menu"

\* the line typed at the confirmation prompt is "y" or "Y"
TypedYes == lower(strip(typed')) = << "y" >>

\* the persisted map is the default map and every mode reads {0, "---"}
LedgerIsReset(file) ==
    /\ file = DictFile("Streak" :> Entry(0, Dashes))
    /\ \A m \in ModeNames : get_high_score_data(file, m) = Entry(0, Dashes)

\* C15 as stated: after a confirmed reset the persisted map holds exactly
\* "Streak" -> {0, "---"} and every mode reads {0, "---"}; a reset that is
\* not confirmed leaves the persisted map as it was.
C15_Original ==
    [][ ConfirmAnsweredStep =>
          IF TypedYes THEN LedgerIsReset(hsFile') ELSE hsFile' = hsFile ]_vars

\* C15, amended: after a confirmed reset whose write succeeds the persisted
\* map holds exactly "Streak" -> {0, "---"} and every mode reads {0, "---"};
\* a confirmed reset whose write fails, and a reset that is not confirmed,
\* leave the persisted map as it was.
C15_ResetToDefaults ==
    [][ ConfirmAnsweredStep =>
          IF TypedYes THEN LedgerIsReset(hsFile') \/ hsFile' = hsFile
          ELSE hsFile' = hsFile ]_vars

\* "Y " was typed at the confirmation prompt and the map is the default map
C15_Witness ==
    /\ pc = "menu" /\ typed = << "Y", " " >>
    /\ hsFile = DictFile("Streak" :> Entry(0, Dashes))

\* C16: an interrupt raised while a round waits for the typed answer makes
\* streak_mode return to the menu at once: no summary is computed, the
\* high-score document is left as it was, no sound is played and neither
\* the game-over screen nor a prompt of the session follows.
C16_InterruptAbortsRound ==
    [][ /\ (pc = "input" /\ end_cause' = "INTERRUPTED") =>
              /\ pc' = "menu"
              /\ hsFile' = hsFile
              /\ final_elapsed' = 0 /\ wpm' = NoWpm /\ ~is_new_record'
              /\ played' = << >>
        /\ end_cause' = "INTERRUPTED" =>
              pc' \in {"menu", "confirm", "exited", "crashed"} ]_vars

\* a round was interrupted at the answer prompt and the legacy document is
\* on disk as it was, not migrated by a read
C16_Witness ==
    /\ pc = "menu" /\ end_cause = "INTERRUPTED"
    /\ hsFile = DictFile("Streak" :> Legacy(3))

\* the game-over block ran: the summary of the round was computed
SummaryStep == pc = "over" /\ pc' \in {"name", "prompt", "crashed"}

\* C17: the summary of a round uses max(1 second, measured elapsed), its
\* division has a divisor above 0, wpm is (total_chars_typed / 5) /
\* (elapsed / 60), and wpm is 0 exactly when no word was answered
\* correctly.
C17_WpmFromFlooredElapsed ==
    [][ SummaryStep =>
          LET measured == now' - start_time
          IN /\ final_elapsed' = IF measured > 1 THEN measured ELSE 1
             /\ wpm'.den > 0
             /\ wpm'.num * (5 * final_elapsed')
                   = (total_chars_typed * 60) * wpm'.den
             /\ wpm'.num = 0 <=> correct_words = 0 ]_vars

\* a round of two correct answers ended with no time measured: the
\* summary divides by the floor of one second
C17_Witness ==
    /\ pc \in {"name", "prompt"} /\ now = start_time
    /\ final_elapsed = 1 /\ correct_words = 2
    /\ wpm = [num |-> total_chars_typed * 60, den |-> 5]
    /\ total_chars_typed > 0

\* the position is inside the round loop
InRound(p) == p \in {"check", "input"}

\* C18: a round leaves its loop either by an interrupt at the answer
\* prompt or to the game-over block, and then by exactly one of the breaks
\* TIMED_OUT and FAILED, which are the steps that play "victory" or
\* "gameover"; the game-over block computes the summary in one step that
\* keeps the counters, and from the prompts that follow no turn of the
\* round is played and no summary is computed again: the only way back
\* into a round loop is the start of a new round.
C18_OneEndOneSummary ==
    [][ /\ (InRound(pc) /\ ~InRound(pc')) =>
              \/ pc' = "over" /\ end_cause' \in {"TIMED_OUT", "FAILED"}
              \/ pc' = "menu" /\ end_cause' = "INTERRUPTED"
        /\ InRound(pc) =>
              (pc' = "over" <=>
                 ("victory" \in Range(played')
                    \/ "gameover" \in Range(played')))
        /\ (InRound(pc) /\ InRound(pc')) => end_cause' = "none"
        /\ pc' = "over" => InRound(pc)
        /\ pc = "over" =>
              /\ SummaryStep
              /\ final_elapsed' >= 1
              /\ UNCHANGED << end_cause, score, correct_words,
                              total_chars_typed, combo >>
        /\ pc \in {"name", "prompt"} =>
              /\ pc' \notin {"over", "input"}
              /\ pc' \in {"name", "prompt"} =>
                    UNCHANGED << final_elapsed, wpm, end_cause >>
              /\ pc' = "check" =>
                    (end_cause' = "none" /\ correct_words' = 0
                       /\ final_elapsed' = 0) ]_vars

\* a round of one correct answer ended FAILED, its summary was computed and
\* the retry prompt is shown
C18_Witness ==
    /\ pc = "prompt" /\ end_cause = "FAILED" /\ correct_words = 1
    /\ final_elapsed >= 1 /\ wpm.num > 0 /\ ~is_new_record

\* the retry prompt returned a line
RetryAnsweredStep == pc = "prompt" /\ pc' \in {"check", "menu"}

\* the line typed at the retry prompt is "r" or "R"
TypedRetry == lower(strip(typed')) = << "r" >>

\* C19: on retry the next round starts for the same mode and pool with
\* score, combo, total_chars_typed and correct_words at 0 and start_time
\* taken from the clock anew; any other line returns to the menu and
\* starts no round.
C19_RetryStartsFresh ==
    [][ RetryAnsweredStep =>
          IF TypedRetry
          THEN /\ pc' = "check"
               /\ UNCHANGED << mode_name, current_words, hsFile >>
               /\ score' = 0 /\ combo' = 0 /\ total_chars_typed' = 0
               /\ correct_words' = 0
               /\ start_time' = now' /\ elapsed' = 0
               /\ time_limit' = time_limit_setting
               /\ end_cause' = "none" /\ target_word' = NoWord
               /\ played' = << "countdown" >>
          ELSE /\ pc' = "menu"
               /\ mode_name' = "none"
               /\ hsFile' = hsFile
               /\ played' = << >> ]_vars

\* "R " was typed at the retry prompt after a round that set a record of 6:
\* a round of the same mode starts with its counters at 0
C19_Witness ==
    /\ pc = "check" /\ typed = << "R", " " >>
    /\ score = 0 /\ combo = 0 /\ correct_words = 0 /\ start_time = now
    /\ StoredScore(hsFile, mode_name) = 6

\* every word of the pool has length L
UniformPool(L) ==
    \A k \in 1..Len(current_words) : Len(current_words[k]) = L

\* sum for i in 0..n-1 of floor(L * multiplier of the tier tabulated for i)
RECURSIVE StreakScore(_, _)
StreakScore(L, n) ==
    IF n = 0 THEN 0
    ELSE StreakScore(L, n - 1) + (L * TabulatedTier(n - 1).mult2) \div 2

\* C20: in a round on a pool whose words all have length L, while the clock
\* has not expired, n correct answers give correct_words = combo = n,
\* total_chars_typed = n * L and score = the sum over the first n combos of
\* floor(L * multiplier); a wrong answer then ends the round FAILED with
\* combo = 0 and the other three unchanged.  For L = 4 the fourth correct
\* word scores 6 and the score is 18.
C20_StreakScore ==
    \A L \in 1..10 :
       UniformPool(L) =>
         /\ (pc \in {"check", "input"} \/ (pc = "over" /\ end_cause = "FAILED"))
               => /\ score = StreakScore(L, correct_words)
                  /\ total_chars_typed = correct_words * L
                  /\ combo = IF pc = "over" THEN 0 ELSE correct_words
         /\ (L = 4 /\ correct_words = 4 /\ pc = "check")
               => points = 6 /\ score = 18
         /\ (L = 4 /\ correct_words = 4 /\ pc = "over"
               /\ end_cause = "FAILED") => score = 18

\* "test" was typed correctly four times and then in capitals: the round
\* ended FAILED at 18 points
C20_Witness ==
    /\ pc = "over" /\ end_cause = "FAILED"
    /\ current_words = << << "t", "e", "s", "t" >> >>
    /\ typed = << "T", "E", "S", "T" >>
    /\ correct_words = 4 /\ combo = 0 /\ total_chars_typed = 16
    /\ score = 18

\* a line of a category file that gives a word: in exact mode any line
\* that is not blank, in normalized mode a line of at least three letters
\* and nothing else between its surrounding whitespace
Usable(line, exact) ==
    LET w == strip(line)
    IN IF exact THEN w # << >>
       ELSE Len(w) >= 3 /\ \A k \in 1..Len(w) : w[k] \in Letters

\* the file gives no word: missing, unreadable, empty, or without a usable
\* line
GivesNoWord(file, exact) ==
    \/ ~file.exists
    \/ file.ioerror
    \/ \A k \in 1..Len(file.lines) : ~Usable(file.lines[k], exact)

BestComparedWith(file, m) ==
    LET hs_data == get_high_score_data(file, m)
    IN IF hs_data.kind = "entry" THEN hs_data.score ELSE 0

\* C22: after the name entry of a new record, whether or not the document
\* could be written, the retry prompt is shown and the rounds that follow
\* in the session are compared with the new record.
C22_RecordHeldAfterFailedWrite ==
    [][ NameEnteredStep =>
          /\ pc' = "prompt"
          /\ BestComparedWith(hsFile', mode_name) = score ]_vars

\* the step judged the answer wrong
JudgedWrongStep == pc = "input" /\ pc' = "over" /\ end_cause' = "FAILED"

\* a step of a round that is not the abort by an interrupt
RoundStep == (InRound(pc) \/ pc = "over") /\ pc' # "menu"

\* C23: within a round score, total_chars_typed, correct_words and combo
\* are not negative; the first three never decrease; combo changes only by
\* +1 on an answer judged correct and to 0 on an answer judged wrong; every
\* other step of the round leaves the four as they are.
C23_CountersMonotonic ==
    [][ RoundStep =>
          /\ score' >= 0 /\ total_chars_typed' >= 0
          /\ correct_words' >= 0 /\ combo' >= 0
          /\ score' >= score
          /\ total_chars_typed' >= total_chars_typed
          /\ correct_words' >= correct_words
          /\ JudgedCorrectStep => combo' = combo + 1
          /\ JudgedWrongStep => combo' = 0
          /\ ~(JudgedCorrectStep \/ JudgedWrongStep) =>
                UNCHANGED << score, total_chars_typed, correct_words,
                             combo >> ]_vars

\* a round of five correct answers timed out: combo is still 5
C23_Witness ==
    /\ pc = "over" /\ end_cause = "TIMED_OUT"
    /\ combo = 5 /\ correct_words = 5 /\ score > total_chars_typed

\* an interrupt was raised at the initials prompt or at the retry prompt
PromptInterruptedStep ==
    pc \in {"name", "prompt"} /\ pc' \in {"exited", "crashed"}

\* C24: an interrupt raised at the initials prompt or at the retry prompt
\* of a streak session is handled, it does not leave the program as an
\* exception nothing caught, and the persisted map is as it was before the
\* prompt.
C24_PromptInterruptHandled ==
    [][ PromptInterruptedStep =>
          (pc' # "crashed" /\ hsFile' = hsFile) ]_vars

\* the canonical shape of a stored value: a legacy integer v is
\* {score v, name "CPU"}, a structured value is itself, anything else is
\* {score 0, name "---"}
Canonical(v) ==
    CASE v.kind = "int" -> Entry(v.score, CPU)
      [] v.kind = "entry" -> v
      [] OTHER -> Entry(0, Dashes)

\* C25: when the game-over block reads a persisted document that is a map,
\* load_high_scores returns the map of the canonical shapes of its values,
\* whether or not one of them is a legacy integer.
C25_LoadCanonical ==
    (pc = "over" /\ hsFile.kind = "dict") =>
        LET loaded == load_high_scores(hsFile)
        IN /\ DOMAIN loaded = DOMAIN hsFile.data
           /\ \A k \in DOMAIN loaded :
                 loaded[k] = Canonical(hsFile.data[k])

\* C26: when every input request returns and the clock keeps advancing, a
\* round that is in its loop leaves it, to the game-over block or by an
\* interrupt, also when every answer is correct.
C26_RoundEnds == InRound(pc) ~> (pc \in {"over", "menu"})

\* every answer of the round was correct up to the bound and the round
\* timed out
C26_Witness ==
    /\ pc = "over" /\ end_cause = "TIMED_OUT"
    /\ correct_words = DeepCorrect /\ combo = DeepCorrect

\* C27: after every step of a round that has judged no answer wrong, combo
\* equals correct_words, a timed-out end included; the step that judges an
\* answer wrong sets combo to 0 and keeps correct_words, and they stay so
\* through the game-over block.
C27_ComboCountsCorrect ==
    [][ RoundStep =>
          /\ (InRound(pc') \/ end_cause' = "TIMED_OUT") =>
                combo' = correct_words'
          /\ JudgedWrongStep =>
                (combo' = 0 /\ correct_words' = correct_words)
          /\ end_cause' = "FAILED" => combo' = 0 ]_vars

\* seven answers were correct and the eighth was wrong
C27_Witness ==
    /\ pc = "over" /\ end_cause = "FAILED"
    /\ combo = 0 /\ correct_words = 7

\* C28: in every state of a round total_chars_typed <= score <=
\* 8 * total_chars_typed: the multiplier of a turn is between 1.0 and 8.0
\* and a correct word of length L has added between L and 8 * L points.
C28_ScoreBounds ==
    (InRound(pc) \/ pc = "over") =>
        /\ total_chars_typed <= score
        /\ score <= 8 * total_chars_typed
        /\ pc = "input" => (2 <= multiplier /\ multiplier <= 16)
        /\ (pc = "check" /\ target_word # NoWord) =>
              /\ Len(target_word) <= points
              /\ points <= 8 * Len(target_word)

\* the thirteenth correct answer of a round was scored eight times its
\* length
C28_Witness ==
    /\ pc = "check" /\ correct_words = 13
    /\ points = 8 * Len(target_word) /\ points > 0
    /\ score < 8 * total_chars_typed

C30_OtherModesKept ==
    [][ NameEnteredStep =>
          /\ \A m \in ModeNames \ {mode_name} :
                get_high_score_data(hsFile', m)
                   = get_high_score_data(hsFile, m)
          /\ DOMAIN load_high_scores(hsFile') \subseteq
                DOMAIN load_high_scores(hsFile) \cup {mode_name}
          /\ DOMAIN load_high_scores(hsFile) \subseteq
                DOMAIN load_high_scores(hsFile') ]_vars

\* a record of 6 was stored for "Streak" and the entry of "Cities" is the
\* one the document held from the start
C30_Witness ==
    /\ pc = "prompt" /\ is_new_record /\ mode_name = "Streak"
    /\ StoredScore(hsFile, "Streak") = 6
    /\ "Cities" \in Keys(hsFile)
    /\ hsFile.data["Cities"] = Entry(4, << "B", "O", "B" >>)

(***************************************************************************)
(* The copy of the round in typing_game.py against the round of            *)
(* hypertyper.py.                                                          *)
(***************************************************************************)
\* the locals of hypertyper.streak_mode, read as tg_round_start lays them
\* out
RoundLocals ==
    [score |-> score, total_chars_typed |-> total_chars_typed,
     correct_words |-> correct_words, combo |-> combo,
     start_time |-> start_time, time_limit |-> time_limit,
     multiplier |-> multiplier, target_word |-> target_word, at |-> pc,
     cause |-> end_cause]

\* the four counters, the place and the cause of a layout of the locals
Outcome(l) ==
    [score |-> l.score, total_chars_typed |-> l.total_chars_typed,
     correct_words |-> l.correct_words, combo |-> l.combo, at |-> l.at,
     cause |-> l.cause]

\* the round is one both copies can play: a normalized-mode category under
\* the limit of 30 seconds
SharedRound(m, limit) == ~exact_match_of(m) /\ limit = tg_time_limit

\* a round starts, from the menu or on a retry
RoundStartStep == pc \in {"menu", "prompt"} /\ pc' = "check"
\* checkpoint 1 is taken
BeginTurnStep == pc = "check" /\ pc' \in {"input", "over"}
\* the answer prompt is interrupted
AnswerInterruptedStep == pc = "input" /\ pc' = "menu"
\* the game-over block runs
GameOverStep == pc = "over" /\ pc' \in {"name", "prompt", "crashed"}

\* the turns of the two copies: from the same locals, on the same clock
\* reading, drawn word and typed line, every step of hypertyper.streak_mode
\* leaves the locals typing_game.streak_mode leaves
SameTurns ==
    /\ (RoundStartStep /\ SharedRound(mode_name', time_limit'))
         => RoundLocals' = tg_round_start(now')
    /\ (BeginTurnStep /\ SharedRound(mode_name, time_limit))
         => RoundLocals' = tg_begin_turn(RoundLocals, now', target_word')
    /\ (AnswerStep /\ SharedRound(mode_name, time_limit))
         => RoundLocals' = tg_answer(RoundLocals, typed', now')
    /\ (AnswerInterruptedStep /\ SharedRound(mode_name, time_limit))
         => /\ pc' = tg_answer_interrupted(RoundLocals).at
            /\ end_cause' = tg_answer_interrupted(RoundLocals).cause
    /\ (GameOverStep /\ SharedRound(mode_name, time_limit))
         => /\ Outcome(RoundLocals') = [Outcome(RoundLocals) EXCEPT !.at = pc']
            /\ end_cause' \in {"TIMED_OUT", "FAILED"}

=============================================================================
